---- MODULE Spec2Model ----
(***************************************************************************)
(* Model of tools.py: the chart-axis helpers set_xaxis_dateformat,         *)
(* set_dense_minor_yticks and set_yaxis_log_minor_labels (with its label   *)
(* formatter MyLogFormatter).                                              *)
(*                                                                         *)
(* The axis handle is the record `ax`; pyplot's global state (which axes   *)
(* is the current one) is `plt`.  Every helper is one action.  `trace` is  *)
(* the list of axis API calls the last helper made, `pre` the axis as it   *)
(* was before that helper ran, `call` the helper's name and arguments.     *)
(*                                                                         *)
(* x-limits are date numbers counted in half days, so that the whole-day   *)
(* truncation of (date_hi - date_lo).days is part of the model.  y values  *)
(* are exact rationals [n, d] in lowest terms.                             *)
(***************************************************************************)
EXTENDS Integers, Sequences, FiniteSets, TLC

VARIABLES ax, plt, call, pre, trace, label

vars == <<ax, plt, call, pre, trace, label>>

(***************************************************************************)
(* Bounds of the model.                                                    *)
(***************************************************************************)
\* maxticks ranges over 1..MaxTicks
MaxTicks == 2

\* x-ranges span up to a little over 90*MaxTicks days, past the last threshold
MaxDaySpan == 90 * MaxTicks + 2

(***************************************************************************)
(* Optional arguments: <<>> is None, <<s>> is the string s.                *)
(***************************************************************************)
None == <<>>

Some(s) == <<s>>

\* Python truthiness of an optional string: None and '' are falsy
Truthy(opt) == opt # None /\ opt[1] # ""

(***************************************************************************)
(* The axis as matplotlib creates it (plt.subplots), before any helper.    *)
(***************************************************************************)
FreshAxis ==
    [ xlim           |-> <<0, 2>>,
      ylim           |-> <<[n |-> 0, d |-> 1], [n |-> 1, d |-> 1]>>,
      xmajor_loc     |-> "AutoLocator()",
      xminor_loc     |-> "NullLocator()",
      xmajor_fmt     |-> "ScalarFormatter()",
      xminor_tickdir |-> "out",
      xgrid_major    |-> FALSE,
      ygrid_major    |-> FALSE,
      xgrid_minor    |-> FALSE,
      ygrid_minor    |-> FALSE,
      xtick_rotation |-> 0,
      xtick_ha       |-> "center",
      xlabel         |-> "",
      ymajor_fmt     |-> "LogFormatterSciNotation()",
      yminor_fmt     |-> "LogFormatterSciNotation()",
      yminor_ticks   |-> <<"auto">> ]

\* A helper runs on a world: the axis, pyplot's state, and the calls made so far
World(a, p) == [ax |-> a, plt |-> p, trace |-> <<>>]

(***************************************************************************)
(* The axis API used by the helpers.                                       *)
(***************************************************************************)
set_major_locator(w, loc) ==
    [w EXCEPT !.ax.xmajor_loc = loc,
              !.trace = Append(@, <<"xaxis.set_major_locator", loc>>)]

set_minor_locator(w, loc) ==
    [w EXCEPT !.ax.xminor_loc = loc,
              !.trace = Append(@, <<"xaxis.set_minor_locator", loc>>)]

tick_params_x_minor_in(w) ==
    [w EXCEPT !.ax.xminor_tickdir = "in",
              !.trace = Append(@, <<"tick_params", "x", "minor", "in">>)]

grid_major_both(w) ==
    [w EXCEPT !.ax.xgrid_major = TRUE,
              !.ax.ygrid_major = TRUE,
              !.trace = Append(@, <<"grid", "major", "both">>)]

grid_minor_x(w) ==
    [w EXCEPT !.ax.xgrid_minor = TRUE,
              !.trace = Append(@, <<"grid", "minor", "x">>)]

grid_minor_y(w) ==
    [w EXCEPT !.ax.ygrid_minor = TRUE,
              !.trace = Append(@, <<"grid", "minor", "y">>)]

set_major_formatter(w, f) ==
    [w EXCEPT !.ax.xmajor_fmt = f,
              !.trace = Append(@, <<"xaxis.set_major_formatter", f>>)]

\* plt.xticks(rotation=-20) acts on pyplot's current axes, whichever it is
plt_xticks_rotation(w) ==
    [w EXCEPT !.ax.xtick_rotation = IF w.plt.gca_is_ax THEN -20 ELSE @,
              !.plt.other_rotation = IF w.plt.gca_is_ax THEN @ ELSE -20,
              !.trace = Append(@, <<"plt.xticks", "rotation=-20">>)]

set_ha_left(w) ==
    [w EXCEPT !.ax.xtick_ha = "left",
              !.trace = Append(@, <<"set_ha", "left">>)]

set_xlabel(w, s) ==
    [w EXCEPT !.ax.xlabel = s,
              !.trace = Append(@, <<"set_xlabel", s>>)]

(***************************************************************************)
(* set_xaxis_dateformat                                                    *)
(***************************************************************************)
\* (date_hi - date_lo).days: whole days, rounded down, between the x-limits
day_span(xlim) == (xlim[2] - xlim[1]) \div 2

\* mutant: the first threshold compared with < instead of <=
DateBranchStrictFirst(span, maxticks) ==
    IF span < maxticks THEN "daily"
    ELSE IF span <= maxticks * 7 THEN "weekly"
    ELSE IF 10 * span <= maxticks * 305 THEN "monthly"
    ELSE "quarterly"

\* mutant: the third threshold compared with < instead of <=
DateBranchStrictThird(span, maxticks) ==
    IF span <= maxticks THEN "daily"
    ELSE IF span <= maxticks * 7 THEN "weekly"
    ELSE IF 10 * span < maxticks * 305 THEN "monthly"
    ELSE "quarterly"

\* The if/elif chain on day_span
DateBranch(span, maxticks) ==
    IF span <= maxticks THEN "daily"
    ELSE IF span <= maxticks * 7 THEN "weekly"
    ELSE IF 10 * span <= maxticks * 305 THEN "monthly"
    ELSE "quarterly"

\* mutant: the weekly branch sets its two locators the wrong way round
set_locators_swapped(w, branch) ==
    CASE branch = "daily" ->
            set_major_locator(w, "DayLocator()")
      [] branch = "weekly" ->
            set_minor_locator(set_major_locator(w, "DayLocator()"), "WeekdayLocator(0)")
      [] branch = "monthly" ->
            tick_params_x_minor_in(
              set_minor_locator(set_major_locator(w, "MonthLocator()"),
                                "WeekdayLocator(0)"))
      [] branch = "quarterly" ->
            set_minor_locator(set_major_locator(w, "MonthLocator([1, 4, 7, 10])"),
                              "MonthLocator()")

\* The locators each branch sets
set_locators(w, branch) ==
    CASE branch = "daily" ->
            set_major_locator(w, "DayLocator()")
      [] branch = "weekly" ->
            set_minor_locator(set_major_locator(w, "WeekdayLocator(0)"), "DayLocator()")
      [] branch = "monthly" ->
            tick_params_x_minor_in(
              set_minor_locator(set_major_locator(w, "MonthLocator()"),
                                "WeekdayLocator(0)"))
      [] branch = "quarterly" ->
            set_minor_locator(set_major_locator(w, "MonthLocator([1, 4, 7, 10])"),
                              "MonthLocator()")

\* fmt as each branch sets it
DateFmt(branch) ==
    IF branch \in {"daily", "weekly"} THEN "%a %Y-%m-%d" ELSE "%Y-%m-%d"

\* mutant: the quarterly branch compares with <= instead of <
MinorGridLoose(branch, span, maxticks) ==
    CASE branch = "daily"     -> FALSE
      [] branch = "weekly"    -> TRUE
      [] branch = "monthly"   -> span <= maxticks * 25
      [] branch = "quarterly" -> span <= maxticks * 90

\* minor_grid as each branch leaves it
MinorGrid(branch, span, maxticks) ==
    CASE branch = "daily"     -> FALSE
      [] branch = "weekly"    -> TRUE
      [] branch = "monthly"   -> span <= maxticks * 25
      [] branch = "quarterly" -> span < maxticks * 90

\* if ticklabels: formatter, rotation, left alignment
apply_ticklabels(w, ticklabels, fmt) ==
    IF ticklabels
    THEN set_ha_left(plt_xticks_rotation(
           set_major_formatter(w, "DateFormatter('" \o fmt \o "')")))
    ELSE w

\* if xlabel: ax.set_xlabel(xlabel)
apply_xlabel(w, xlabel) ==
    IF Truthy(xlabel) THEN set_xlabel(w, xlabel[1]) ELSE w

set_xaxis_dateformat_body(w, xlabel, maxticks, yminor, ticklabels) ==
    LET span   == day_span(w.ax.xlim)
        branch == DateBranch(span, maxticks)
        w1 == set_locators(w, branch)
        w2 == grid_major_both(w1)
        w3 == IF MinorGrid(branch, span, maxticks) THEN grid_minor_x(w2) ELSE w2
        w4 == IF yminor THEN grid_minor_y(w3) ELSE w3
        w5 == apply_ticklabels(w4, ticklabels, DateFmt(branch))
    IN  apply_xlabel(w5, xlabel)

(***************************************************************************)
(* Exact arithmetic on non-negative rationals [n, d], kept in lowest terms.*)
(***************************************************************************)
RECURSIVE GCD(_, _)
GCD(a, b) == IF b = 0 THEN a ELSE GCD(b, a % b)

Rat(n, d) == LET g == GCD(n, d) IN [n |-> n \div g, d |-> d \div g]

Int2Rat(i) == [n |-> i, d |-> 1]

\* -1, 0 or 1 as a < b, a = b or a > b: whole parts first, then the fractions
RCmp(a, b) ==
    LET qa == a.n \div a.d
        qb == b.n \div b.d
        fa == (a.n % a.d) * b.d
        fb == (b.n % b.d) * a.d
    IN  IF qa < qb THEN -1
        ELSE IF qa > qb THEN 1
        ELSE IF fa < fb THEN -1
        ELSE IF fa > fb THEN 1
        ELSE 0

RLt(a, b) == RCmp(a, b) = -1

RLe(a, b) == RCmp(a, b) # 1

\* the exact product a * b of two rationals (no rounding: the doubles' product is
\* FMul), cancelling common factors before multiplying
RMul(a, b) ==
    LET g1 == GCD(a.n, b.d)
        g2 == GCD(b.n, a.d)
    IN  [n |-> (a.n \div g1) * (b.n \div g2), d |-> (a.d \div g2) * (b.d \div g1)]

\* the exact quotient a / b of two rationals, b > 0 (no rounding: the doubles'
\* quotient is FDiv)
RDiv(a, b) == RMul(a, [n |-> b.d, d |-> b.n])

\* 10 ** k for any integer k
Pow10(k) == IF k >= 0 THEN [n |-> 10 ^ k, d |-> 1] ELSE [n |-> 1, d |-> 10 ^ (0 - k)]

\* np.floor(np.log10(r)) for r > 0: the largest k with 10 ** k <= r
RECURSIVE FloorLog10From(_, _)
FloorLog10From(r, k) ==
    IF RLt(r, Pow10(k)) THEN FloorLog10From(r, k - 1)
    ELSE IF RLe(Pow10(k + 1), r) THEN FloorLog10From(r, k + 1)
    ELSE k

FloorLog10(r) == FloorLog10From(r, 0)

\* np.ceil(np.log10(r)) for r > 0: the smallest k with r <= 10 ** k
CeilLog10(r) ==
    LET f == FloorLog10(r) IN IF Pow10(f) = r THEN f ELSE f + 1

\* np.rint: round to the nearest integer, ties to the even one
RoundHalfEven(r) ==
    LET q   == r.n \div r.d
        rem == r.n % r.d
    IN  IF 2 * rem < r.d THEN q
        ELSE IF 2 * rem > r.d THEN q + 1
        ELSE IF q % 2 = 0 THEN q ELSE q + 1

(***************************************************************************)
(* np.float64 arithmetic.  A rational stands for the double nearest to it  *)
(* (the value of a float literal).  The real result of an expression and   *)
(* its double differ by less than 2^-41 of the scaled value, and a rational*)
(* of this model that is no tie lies at least 2^-32 from the nearest tie:  *)
(* so a rounding is computed on the rational when the rational is no tie,  *)
(* and on the doubles, bit for bit, when it is one.                        *)
(*                                                                         *)
(* Big naturals are sequences of limbs, least significant first, without   *)
(* leading zero limbs; a double is [m, e], the value m * 2^e, m < 2^53.    *)
(***************************************************************************)
LimbBits == 15

LimbBase == 2 ^ LimbBits

\* the significand of a binary64 has 53 bits
Precision == 53

RECURSIVE BNorm(_)
BNorm(a) == IF a # <<>> /\ a[Len(a)] = 0 THEN BNorm(SubSeq(a, 1, Len(a) - 1)) ELSE a

RECURSIVE BFromInt(_)
BFromInt(i) == IF i = 0 THEN <<>> ELSE <<i % LimbBase>> \o BFromInt(i \div LimbBase)

BRest(a) == IF a = <<>> THEN <<>> ELSE Tail(a)

BLow(a) == IF a = <<>> THEN 0 ELSE Head(a)

RECURSIVE BAddC(_, _, _)
BAddC(a, b, c) ==
    IF a = <<>> /\ b = <<>> THEN BFromInt(c)
    ELSE LET t == BLow(a) + BLow(b) + c
         IN  <<t % LimbBase>> \o BAddC(BRest(a), BRest(b), t \div LimbBase)

BAdd(a, b) == BAddC(a, b, 0)

\* a - b for a >= b
RECURSIVE BSubC(_, _, _)
BSubC(a, b, c) ==
    IF a = <<>> THEN <<>>
    ELSE LET t == Head(a) - BLow(b) - c
         IN  <<IF t < 0 THEN t + LimbBase ELSE t>>
             \o BSubC(Tail(a), BRest(b), IF t < 0 THEN 1 ELSE 0)

BSub(a, b) == BNorm(BSubC(a, b, 0))

\* -1, 0 or 1 as a < b, a = b or a > b, comparing limbs i, i - 1, .. 1
RECURSIVE BCmpFrom(_, _, _)
BCmpFrom(a, b, i) ==
    IF i = 0 THEN 0
    ELSE IF a[i] < b[i] THEN -1
    ELSE IF a[i] > b[i] THEN 1
    ELSE BCmpFrom(a, b, i - 1)

BCmp(a, b) ==
    IF Len(a) < Len(b) THEN -1
    ELSE IF Len(a) > Len(b) THEN 1
    ELSE BCmpFrom(a, b, Len(a))

\* a * s + c for a limb s
RECURSIVE BMulLimb(_, _, _)
BMulLimb(a, s, c) ==
    IF a = <<>> THEN BFromInt(c)
    ELSE LET t == Head(a) * s + c
         IN  <<t % LimbBase>> \o BMulLimb(Tail(a), s, t \div LimbBase)

RECURSIVE BMulSeq(_, _)
BMulSeq(a, b) ==
    IF b = <<>> THEN <<>>
    ELSE BAdd(BMulLimb(a, Head(b), 0), <<0>> \o BMulSeq(a, Tail(b)))

BMul(a, b) == BNorm(BMulSeq(a, b))

BDouble(a) == BAdd(a, a)

\* 2 * a + 1 if bit, else 2 * a
BPush(a, bit) == BAddC(a, a, IF bit THEN 1 ELSE 0)

BOdd(a) == a # <<>> /\ a[1] % 2 = 1

RECURSIVE ZeroLimbs(_)
ZeroLimbs(k) == IF k <= 0 THEN <<>> ELSE <<0>> \o ZeroLimbs(k - 1)

\* a * 2^k; a for k <= 0
BShl(a, k) ==
    IF k <= 0 \/ a = <<>> THEN a
    ELSE ZeroLimbs(k \div LimbBits) \o BMulLimb(a, 2 ^ (k % LimbBits), 0)

\* a \div 2^t for t < LimbBits, limb by limb
RECURSIVE BShrBits(_, _)
BShrBits(a, t) ==
    IF a = <<>> THEN <<>>
    ELSE <<(Head(a) \div (2 ^ t))
           + (IF Len(a) > 1 THEN (a[2] % (2 ^ t)) * (2 ^ (LimbBits - t)) ELSE 0)>>
         \o BShrBits(Tail(a), t)

\* a \div 2^k
BShr(a, k) ==
    IF k \div LimbBits >= Len(a) THEN <<>>
    ELSE BNorm(BShrBits(SubSeq(a, (k \div LimbBits) + 1, Len(a)), k % LimbBits))

RECURSIVE IntBitLen(_)
IntBitLen(i) == IF i = 0 THEN 0 ELSE 1 + IntBitLen(i \div 2)

BBitLen(a) == IF a = <<>> THEN 0 ELSE LimbBits * (Len(a) - 1) + IntBitLen(a[Len(a)])

\* bit i of a, bit 0 the least significant
BBit(a, i) ==
    /\ i \div LimbBits < Len(a)
    /\ (a[(i \div LimbBits) + 1] \div (2 ^ (i % LimbBits))) % 2 = 1

\* the double nearest to m * 2^e: the bits of m beyond Precision are dropped and
\* the rest rounded to nearest, ties to even
FRound(m, e) ==
    LET s      == BBitLen(m) - Precision
        q      == BShr(m, s)
        guard  == BBit(m, s - 1)
        sticky == \E i \in 0..(s - 2) : BBit(m, i)
    IN  IF s <= 0 THEN [m |-> m, e |-> e]
        ELSE [m |-> IF guard /\ (sticky \/ BOdd(q)) THEN BAdd(q, <<1>>) ELSE q,
              e |-> e + s]

\* a * b in double precision
FMul(a, b) == FRound(BMul(a.m, b.m), a.e + b.e)

\* one step of the long division num / dv: while bits of num remain (i >= 0) the
\* next one is brought down; then zeros are, until the quotient q has Precision
\* bits or the division has come out even; then nothing changes
DivStep(s) ==
    LET r2 == BPush(s.rem, s.i >= 0 /\ BBit(s.num, s.i))
        ge == BCmp(r2, s.dv) >= 0
    IN  IF s.i < 0 /\ (s.rem = <<>> \/ BBitLen(s.q) >= Precision) THEN s
        ELSE [s EXCEPT !.q   = BPush(s.q, ge),
                       !.rem = IF ge THEN BSub(r2, s.dv) ELSE r2,
                       !.i   = IF s.i >= 0 THEN s.i - 1 ELSE s.i,
                       !.e   = IF s.i >= 0 THEN s.e ELSE s.e - 1]

\* the step taken k times.  u ranges over a one-element set, so that the first
\* half of the steps is computed before the second half starts
RECURSIVE DivSteps(_, _)
DivSteps(s, k) ==
    IF k = 1 THEN DivStep(s)
    ELSE CHOOSE t \in {DivSteps(u, k - (k \div 2)) : u \in {DivSteps(s, k \div 2)}} : TRUE

\* enough steps for a dividend of up to Precision + 1 bits and a quotient of
\* Precision bits that starts up to 20 bits below the binary point
MaxDivSteps == 2 * Precision + 22

\* the quotient of a finished long division, rounded to nearest, ties to even,
\* by the remainder
DivRound(s) ==
    LET c == BCmp(BDouble(s.rem), s.dv)
    IN  [m |-> IF c > 0 \/ (c = 0 /\ BOdd(s.q)) THEN BAdd(s.q, <<1>>) ELSE s.q,
         e |-> s.e]

\* a / b in double precision
FDiv(a, b) ==
    DivRound(DivSteps([num |-> a.m, dv |-> b.m, i |-> BBitLen(a.m) - 1,
                       q |-> <<>>, rem |-> <<>>, e |-> a.e - b.e], MaxDivSteps))

\* the double nearest to the rational r > 0: n / d correctly rounded, the whole
\* part of the quotient taken at once
Float(r) ==
    DivRound(DivSteps([num |-> <<>>, dv |-> BFromInt(r.d), i |-> -1,
                       q |-> BFromInt(r.n \div r.d), rem |-> BFromInt(r.n % r.d),
                       e |-> 0], MaxDivSteps))

\* -1, 0 or 1 as the double v is below, at or above the rational r
FCmp(v, r) ==
    BCmp(BShl(BMul(v.m, BFromInt(r.d)), v.e), BShl(BFromInt(r.n), 0 - v.e))

\* the integer nearest to a double, ties to even: s is the real counterpart of
\* the double scaled to the digits wanted, and decides unless it lies halfway
\* between two integers; there the double v, below, at or above its own real
\* counterpart r, decides
Nearest(s, v, r) ==
    IF 2 * (s.n % s.d) # s.d THEN RoundHalfEven(s)
    ELSE LET c == FCmp(v, r)
             q == s.n \div s.d
         IN  IF c < 0 THEN q
             ELSE IF c > 0 THEN q + 1
             ELSE IF q % 2 = 0 THEN q ELSE q + 1

RECURSIVE IntTrailingZeros(_)
IntTrailingZeros(i) == IF i % 2 = 1 THEN 0 ELSE 1 + IntTrailingZeros(i \div 2)

\* the number of zero bits at the low end of a > 0
RECURSIVE BTrailingZeros(_)
BTrailingZeros(a) ==
    IF Head(a) = 0 THEN LimbBits + BTrailingZeros(Tail(a)) ELSE IntTrailingZeros(Head(a))

\* the double v > 0 written with an odd m: equal doubles are then equal records
Canon(v) ==
    LET t == BTrailingZeros(v.m) IN [m |-> BShr(v.m, t), e |-> v.e + t]

\* -1, 0 or 1 as a < b, a = b or a > b, for doubles a, b > 0: by the position of
\* the leading bit, then bit for bit
FCmpF(a, b) ==
    LET la == BBitLen(a.m) + a.e
        lb == BBitLen(b.m) + b.e
        k  == IF a.e < b.e THEN a.e ELSE b.e
    IN  IF la < lb THEN -1
        ELSE IF la > lb THEN 1
        ELSE BCmp(BShl(a.m, a.e - k), BShl(b.m, b.e - k))

FLt(a, b) == FCmpF(a, b) < 0

FLe(a, b) == FCmpF(a, b) <= 0

(***************************************************************************)
(* set_dense_minor_yticks.  The y-limits are rationals standing for their  *)
(* doubles; quotient, products and comparisons are those of the doubles.   *)
(***************************************************************************)
\* mticks = np.array([1.5, 2, 3, 4, 5, 6, 7, 8, 9])
MinorMantissas ==
    <<Rat(3, 2), Int2Rat(2), Int2Rat(3), Int2Rat(4), Int2Rat(5), Int2Rat(6),
      Int2Rat(7), Int2Rat(8), Int2Rat(9)>>

\* mutant: the early return taken only above three decades
TooManyDecadesThree(ymin, ymax) ==
    FCmp(FDiv(Float(ymax), Float(ymin)), Int2Rat(1000)) > 0

\* if ymax/ymin > 100: return
TooManyDecades(ymin, ymax) ==
    FCmp(FDiv(Float(ymax), Float(ymin)), Int2Rat(100)) > 0

\* emin = np.floor(np.log10(ymin/4)): the division by 4 is exact in binary, so
\* ymin/4 is the double nearest to the rational; log10 of the double nearest to a
\* power of ten is the whole exponent
Emin(ymin) == FloorLog10(RDiv(ymin, Int2Rat(4)))

\* mutant: floor instead of ceil
EmaxFloor(ymax) == FloorLog10(RMul(ymax, Int2Rat(4)))

\* emax = np.ceil(np.log10(ymax*4)): the product by 4 is exact in binary
Emax(ymax) == CeilLog10(RMul(ymax, Int2Rat(4)))

\* mticks * p for p = 10**k: the mantissas i, i + 1, .. 9 of one decade
RECURSIVE DecadeTicks(_, _)
DecadeTicks(p, i) ==
    IF i > Len(MinorMantissas) THEN <<>>
    ELSE <<Canon(FMul(Float(MinorMantissas[i]), p))>> \o DecadeTicks(p, i + 1)

\* mticks * (10**np.arange(emin, emax).reshape(-1, 1)), row by row: emax itself
\* excluded
RECURSIVE TickCandidates(_, _)
TickCandidates(emin, emax) ==
    IF emin >= emax THEN <<>>
    ELSE (CHOOSE row \in {DecadeTicks(p, 1) : p \in {Float(Pow10(emin))}} : TRUE)
         \o TickCandidates(emin + 1, emax)

\* mutant: the bounds themselves let through
TickFilterClosed(t, lo, hi) == FLe(lo, t) /\ FLe(t, hi)

\* (mticks > ymin/4) & (mticks < ymax*4), for lo = ymin/4 and hi = ymax*4
TickFilter(t, lo, hi) == FLt(lo, t) /\ FLt(t, hi)

\* mticks[mask]: the candidates the mask keeps, in their order
RECURSIVE Masked(_, _, _)
Masked(ts, lo, hi) ==
    IF ts = <<>> THEN <<>>
    ELSE (IF TickFilter(Head(ts), lo, hi) THEN <<Head(ts)>> ELSE <<>>)
         \o Masked(Tail(ts), lo, hi)

DenseMinorTicks(ymin, ymax) ==
    CHOOSE ts \in {Masked(TickCandidates(Emin(ymin), Emax(ymax)), lo, hi) :
                     lo \in {FDiv(Float(ymin), Float(Int2Rat(4)))},
                     hi \in {FMul(Float(ymax), Float(Int2Rat(4)))}} : TRUE

FMin(a, b) == IF FLe(a, b) THEN a ELSE b

FMax(a, b) == IF FLe(a, b) THEN b ELSE a

\* ax.yaxis.set_ticks(mticks, minor=True): fixes the minor tick locations and
\* widens the view limits to hold every tick (keeping an inverted axis inverted);
\* the ticks are in ascending order
yaxis_set_ticks_minor(w, ticks) ==
    LET lo == Canon(Float(w.ax.ylim[1]))
        hi == Canon(Float(w.ax.ylim[2]))
        wide == IF ticks = <<>> THEN w.ax.ylim
                ELSE IF FLe(lo, hi)
                THEN <<FMin(lo, ticks[1]), FMax(hi, ticks[Len(ticks)])>>
                ELSE <<FMax(lo, ticks[Len(ticks)]), FMin(hi, ticks[1])>>
    IN  [w EXCEPT !.ax.yminor_ticks = <<"fixed", ticks>>,
                  !.ax.ylim = wide,
                  !.trace = Append(@, <<"yaxis.set_ticks", "minor=True">>)]

set_ylim(w, ymin, ymax) ==
    [w EXCEPT !.ax.ylim = <<ymin, ymax>>,
              !.trace = Append(@, <<"set_ylim">>)]

set_dense_minor_yticks_body(w) ==
    LET ymin == w.ax.ylim[1]
        ymax == w.ax.ylim[2]
    IN  IF TooManyDecades(ymin, ymax) THEN w
        ELSE set_ylim(yaxis_set_ticks_minor(w, DenseMinorTicks(ymin, ymax)),
                      ymin, ymax)

(***************************************************************************)
(* set_yaxis_log_minor_labels and its formatter                            *)
(***************************************************************************)
MyLogFormatter == "MyLogFormatter(minor_thresholds=(2, 1))"

yaxis_set_minor_formatter(w, f) ==
    [w EXCEPT !.ax.yminor_fmt = f,
              !.trace = Append(@, <<"yaxis.set_minor_formatter", f>>)]

yaxis_set_major_formatter(w, f) ==
    [w EXCEPT !.ax.ymajor_fmt = f,
              !.trace = Append(@, <<"yaxis.set_major_formatter", f>>)]

set_yaxis_log_minor_labels_body(w) ==
    set_dense_minor_yticks_body(
      yaxis_set_major_formatter(yaxis_set_minor_formatter(w, MyLogFormatter),
                                MyLogFormatter))

(***************************************************************************)
(* MyLogFormatter.__call__                                                 *)
(***************************************************************************)
DigitStr == <<"0", "1", "2", "3", "4", "5", "6", "7", "8", "9">>

Str(dgt) == DigitStr[dgt + 1]

\* the digits of ds as text
RECURSIVE Join(_)
Join(ds) == IF ds = <<>> THEN "" ELSE Str(Head(ds)) \o Join(Tail(ds))

\* ds without its trailing zeros
RECURSIVE StripZeros(_)
StripZeros(ds) ==
    IF ds # <<>> /\ ds[Len(ds)] = 0 THEN StripZeros(SubSeq(ds, 1, Len(ds) - 1)) ELSE ds

\* "" or "." and the fraction digits that remain once trailing zeros are dropped
Fraction(ds) == LET fs == StripZeros(ds) IN IF fs = <<>> THEN "" ELSE "." \o Join(fs)

RECURSIVE Zeros(_)
Zeros(k) == IF k <= 0 THEN <<>> ELSE <<0>> \o Zeros(k - 1)

\* the exponent of scientific notation: a sign and at least two digits
ExpStr(e) ==
    LET a == IF e < 0 THEN 0 - e ELSE e
    IN  (IF e < 0 THEN "e-" ELSE "e+") \o Str(a \div 10) \o Str(a % 10)

\* format(x / mul, '.3g'): three significant digits, rounded to nearest with ties
\* to even on the double x / mul; trailing zeros dropped; scientific notation
\* when the decimal exponent is below -4 or at least 3
Format3g(x, mul) ==
    LET r   == RDiv(x, mul)
        e0  == FloorLog10(r)
        n0  == Nearest(RMul(r, Pow10(2 - e0)), FDiv(Float(x), Float(mul)), r)
        e   == IF n0 = 1000 THEN e0 + 1 ELSE e0
        n   == IF n0 = 1000 THEN 100 ELSE n0
        ds  == <<n \div 100, (n \div 10) % 10, n % 10>>
    IN  IF e < -4 \/ e >= 3
        THEN Str(ds[1]) \o Fraction(Tail(ds)) \o ExpStr(e)
        ELSE IF e >= 0
        THEN Join(SubSeq(ds, 1, e + 1)) \o Fraction(SubSeq(ds, e + 2, 3))
        ELSE "0" \o Fraction(Zeros(0 - e - 1) \o ds)

\* mantisse = np.around(x * 10 ** -np.floor(np.log10(x)), 1): np.around multiplies
\* by 10, rounds with np.rint and divides by 10
Mantisse(x) ==
    LET k == FloorLog10(x)
        s == RMul(x, Pow10(1 - k))
        v == FMul(FMul(Float(x), Float(Pow10(0 - k))), Float(Int2Rat(10)))
    IN  Rat(Nearest(s, v, s), 10)

\* mutant: 9 forgotten in the tuple
SuppressedSixEight(x) == Mantisse(x) \in {Int2Rat(6), Int2Rat(8)}

\* if mantisse in (6, 8, 9): return ''
Suppressed(x) == Mantisse(x) \in {Int2Rat(6), Int2Rat(8), Int2Rat(9)}

\* [(1e6, 'M'), (1e3, 'k'), (1, ''), (1e-3, 'm')]
PrefixTable ==
    << [mul |-> Pow10(6), prefix |-> "M"],
       [mul |-> Pow10(3), prefix |-> "k"],
       [mul |-> Pow10(0), prefix |-> ""],
       [mul |-> Pow10(-3), prefix |-> "m"] >>

\* mutant: the loop breaks on x > mul instead of x >= mul
RECURSIVE PrefixLoopStrict(_, _)
PrefixLoopStrict(x, i) ==
    IF RLt(PrefixTable[i].mul, x) THEN PrefixTable[i]
    ELSE IF i = Len(PrefixTable) THEN PrefixTable[i]
    ELSE PrefixLoopStrict(x, i + 1)

\* the for loop: break at the first entry with x >= mul; when no entry breaks,
\* mul and prefix keep the values of the last entry
RECURSIVE PrefixLoop(_, _)
PrefixLoop(x, i) ==
    IF RLe(PrefixTable[i].mul, x) THEN PrefixTable[i]
    ELSE IF i = Len(PrefixTable) THEN PrefixTable[i]
    ELSE PrefixLoop(x, i + 1)

\* f'{x/mul:.3g}{prefix}'
MyLogFormatter_call(x) ==
    IF Suppressed(x) THEN ""
    ELSE LET sel == PrefixLoop(x, 1)
         IN  Format3g(x, sel.mul) \o sel.prefix

(***************************************************************************)
(* State, and the caller's steps (plt.subplots, ax.plot) around the helpers.*)
(***************************************************************************)
\* plt.subplots: a fresh axis; it is pyplot's current axes only if created last
Init ==
    /\ ax = FreshAxis
    /\ plt \in {[gca_is_ax |-> b, other_rotation |-> 0] : b \in BOOLEAN}
    /\ call = [op |-> "subplots"]
    /\ pre = FreshAxis
    /\ trace = <<>>
    /\ label = ""

\* x-ranges in half days: every forward-ordered range of up to MaxDaySpan days
XRanges == {<<lo, lo + s>> : lo \in 0..1, s \in 1..(2 * MaxDaySpan + 1)}

\* ax.plot(tseries): the x-limits become the plotted date range
plot(ranges) ==
    /\ call.op = "subplots"
    /\ \E r \in ranges : ax' = [ax EXCEPT !.xlim = r]
    /\ pre' = ax
    /\ call' = [op |-> "plot"]
    /\ trace' = <<>>
    /\ UNCHANGED <<plt, label>>

(***************************************************************************)
(* The date-axis specification.                                            *)
(***************************************************************************)
XLabels == {None, Some(""), Some("Date")}

set_xaxis_dateformat ==
    /\ call.op = "plot"
    /\ \E xlabel \in XLabels : \E maxticks \in 1..MaxTicks :
         \E yminor \in BOOLEAN : \E ticklabels \in BOOLEAN :
           /\ LET w == set_xaxis_dateformat_body(World(ax, plt), xlabel, maxticks,
                                                 yminor, ticklabels)
              IN  /\ ax' = w.ax
                  /\ plt' = w.plt
                  /\ trace' = w.trace
           /\ call' = [op |-> "set_xaxis_dateformat",
                       xlabel |-> xlabel, maxticks |-> maxticks,
                       yminor |-> yminor, ticklabels |-> ticklabels]
    /\ pre' = ax
    /\ label' = label

NextX ==
    \/ plot(XRanges)
    \/ set_xaxis_dateformat

SpecX == Init /\ [][NextX]_vars

(***************************************************************************)
(* The log-axis specification.                                             *)
(***************************************************************************)
\* The lower limit is a / 10^j for a in 1..MaxYmin and j in 0..MaxYDecimals
MaxYmin == 12

MaxYDecimals == 3

\* The upper limit is r/2 times the lower one: every r/2 up to MaxHalfRatio / 2,
\* and the ratios 25 and 50 and those around 100
MaxHalfRatio == 16

HalfRatios == (3..MaxHalfRatio) \cup {50, 100, 198, 199, 200, 201, 202}

YLows == {Rat(a, 10 ^ j) : a \in 1..MaxYmin, j \in 0..MaxYDecimals}

\* the ranges, and the inverted ones (an inverted axis) of the smaller ratios
YRanges ==
    {<<lo, RMul(lo, Rat(r, 2))>> : lo \in YLows, r \in HalfRatios}
    \cup {<<RMul(lo, Rat(r, 2)), lo>> : lo \in YLows, r \in 3..MaxHalfRatio}

\* ax.plot / ax.set_ylim by the caller: the y-limits of a log-scale axis
plot_y(ranges) ==
    /\ call.op = "subplots"
    /\ \E r \in ranges : ax' = [ax EXCEPT !.ylim = r]
    /\ pre' = ax
    /\ call' = [op |-> "plot_y"]
    /\ trace' = <<>>
    /\ UNCHANGED <<plt, label>>

set_dense_minor_yticks ==
    /\ call.op = "plot_y"
    /\ \E w \in {set_dense_minor_yticks_body(World(ax, plt))} :
           /\ ax' = w.ax
           /\ plt' = w.plt
           /\ trace' = w.trace
    /\ pre' = ax
    /\ call' = [op |-> "set_dense_minor_yticks"]
    /\ label' = label

set_yaxis_log_minor_labels ==
    /\ call.op = "plot_y"
    /\ \E w \in {set_yaxis_log_minor_labels_body(World(ax, plt))} :
           /\ ax' = w.ax
           /\ plt' = w.plt
           /\ trace' = w.trace
    /\ pre' = ax
    /\ call' = [op |-> "set_yaxis_log_minor_labels"]
    /\ label' = label

\* one figure with a single axis, which is pyplot's current one
InitF == Init /\ plt.gca_is_ax

NextY ==
    \/ plot_y(YRanges)
    \/ set_dense_minor_yticks
    \/ set_yaxis_log_minor_labels

SpecY == InitF /\ [][NextY]_vars

(***************************************************************************)
(* The label-formatter specification.                                      *)
(***************************************************************************)
\* tick values lie in the decades 10^-LowDecades .. 10^MaxDecade (numerators and
\* denominators of the rationals stay within 32-bit integers up to 10^-5 .. 10^7)
LowDecades == 4

MaxDecade == 6

\* four-digit mantissas d.ddd, the ties of both roundings among them (d.ddd5 for
\* the three-digit label, d.d50 for the one-decimal mantissa)
TickMantissas == 1000..9999

\* the tick value m/1000 * 10^e
Tick(m, e) == RMul(Rat(m, 1000), Pow10(e))

\* the data of a panel spans one decade, 10^e .. 10^(e+1)
DecadeRanges == {<<Pow10(e), Pow10(e + 1)>> : e \in (0 - LowDecades)..MaxDecade}

\* matplotlib draws the label of a tick in view: the installed formatter is
\* called with the tick's value
format_tick ==
    /\ call.op = "set_yaxis_log_minor_labels"
    /\ ax.ymajor_fmt = MyLogFormatter
    /\ \E m \in TickMantissas :
         LET x == Tick(m, FloorLog10(ax.ylim[1]))
         IN  /\ label' = MyLogFormatter_call(x)
             /\ call' = [op |-> "format_tick", x |-> x]
    /\ pre' = ax
    /\ trace' = <<>>
    /\ UNCHANGED <<ax, plt>>

NextF ==
    \/ plot_y(DecadeRanges)
    \/ set_yaxis_log_minor_labels
    \/ format_tick

SpecF == InitF /\ [][NextF]_vars

(***************************************************************************)
(* Properties.                                                             *)
(***************************************************************************)
\* the axis API calls made by the last helper
Calls == {trace[i] : i \in 1..Len(trace)}

CallsTo(name) == {c \in Calls : c[1] = name}

DateCalled == call.op = "set_xaxis_dateformat"

\* day_span as the last set_xaxis_dateformat call saw it
Span == day_span(pre.xlim)

WeekdayFormatter == "DateFormatter('%a %Y-%m-%d')"

MinorXGridCall == <<"grid", "minor", "x">> \in Calls

\* C1: when day_span <= maxticks, set_xaxis_dateformat sets the daily major
\* locator, does not set the minor locator, chooses the weekday date format, and
\* makes no minor x-grid call (and no minor grid call at all unless yminor)
C1_DailyBranch ==
    (DateCalled /\ Span <= call.maxticks) =>
        /\ CallsTo("xaxis.set_major_locator") = {<<"xaxis.set_major_locator", "DayLocator()">>}
        /\ ax.xmajor_loc = "DayLocator()"
        /\ CallsTo("xaxis.set_minor_locator") = {}
        /\ ax.xminor_loc = pre.xminor_loc
        /\ call.ticklabels => ax.xmajor_fmt = WeekdayFormatter
        /\ ~MinorXGridCall
        /\ ax.xgrid_minor = pre.xgrid_minor
        /\ ~call.yminor => \A c \in CallsTo("grid") : c[2] # "minor"

\* a daily-branch call exactly on the threshold, with tick labels
C1_Witness ==
    /\ DateCalled
    /\ Span = call.maxticks
    /\ call.ticklabels
    /\ ~call.yminor
    /\ ax.xmajor_loc = "DayLocator()"

\* C2: when maxticks < day_span <= 7*maxticks, the major locator is the Monday
\* locator, the minor locator the daily one, the format the weekday format, and
\* minor x-gridlines are drawn
C2_WeeklyBranch ==
    (DateCalled /\ call.maxticks < Span /\ Span <= 7 * call.maxticks) =>
        /\ ax.xmajor_loc = "WeekdayLocator(0)"
        /\ ax.xminor_loc = "DayLocator()"
        /\ call.ticklabels => ax.xmajor_fmt = WeekdayFormatter
        /\ MinorXGridCall
        /\ ax.xgrid_minor

\* a weekly-branch call exactly on the upper threshold
C2_Witness ==
    /\ DateCalled
    /\ Span = 7 * call.maxticks
    /\ call.ticklabels
    /\ ax.xmajor_loc = "WeekdayLocator(0)"

\* C3: exactly one of the four branches runs, chosen by the interval day_span
\* lies in; a day_span equal to maxticks, 7*maxticks or 30.5*maxticks takes the
\* lower branch and one day more takes the next branch
C3_BranchPartition ==
    DateCalled =>
        LET s == Span
            m == call.maxticks
            major == ax.xmajor_loc
        IN  /\ Cardinality(CallsTo("xaxis.set_major_locator")) = 1
            /\ major = "DayLocator()" <=> s <= m
            /\ major = "WeekdayLocator(0)" <=> (m < s /\ s <= 7 * m)
            /\ major = "MonthLocator()" <=> (7 * m < s /\ 2 * s <= 61 * m)
            /\ major = "MonthLocator([1, 4, 7, 10])" <=> 2 * s > 61 * m
            /\ s = m => major = "DayLocator()"
            /\ s = m + 1 => major = "WeekdayLocator(0)"
            /\ s = 7 * m => major = "WeekdayLocator(0)"
            /\ s = 7 * m + 1 => major = "MonthLocator()"
            /\ 2 * s = 61 * m => major = "MonthLocator()"
            /\ 2 * s = 61 * m + 2 => major = "MonthLocator([1, 4, 7, 10])"

\* a call with day_span exactly 30.5*maxticks, which takes the monthly branch
C3_Witness ==
    /\ DateCalled
    /\ 2 * Span = 61 * call.maxticks
    /\ ax.xmajor_loc = "MonthLocator()"

\* C4: minor x-gridlines are drawn in the monthly branch iff day_span <=
\* 25*maxticks and in the quarterly branch iff day_span < 90*maxticks; so they are
\* on for maxticks < day_span <= 25*maxticks, off up to 30.5*maxticks, on again
\* below 90*maxticks and off from 90*maxticks upward
C4_MinorGrid ==
    DateCalled =>
        LET s == Span
            m == call.maxticks
        IN  /\ (7 * m < s /\ 2 * s <= 61 * m) => (MinorXGridCall <=> s <= 25 * m)
            /\ 2 * s > 61 * m => (MinorXGridCall <=> s < 90 * m)
            /\ (m < s /\ s <= 25 * m) => MinorXGridCall
            /\ (25 * m < s /\ 2 * s <= 61 * m) => ~MinorXGridCall
            /\ (2 * s > 61 * m /\ s < 90 * m) => MinorXGridCall
            /\ s >= 90 * m => ~MinorXGridCall
            /\ ax.xgrid_minor = MinorXGridCall

\* a quarterly-branch call with day_span exactly 90*maxticks: no minor x-grid
C4_Witness ==
    /\ DateCalled
    /\ Span = 90 * call.maxticks
    /\ ax.xmajor_loc = "MonthLocator([1, 4, 7, 10])"
    /\ ~ax.xgrid_minor

\* C9: after set_xaxis_dateformat the major grid is on for both axes; the date
\* formatter, the -20 degree rotation and the left alignment of the axis's tick
\* labels are applied iff ticklabels; minor y-gridlines are drawn iff yminor;
\* the x-label is set iff a non-empty xlabel is given
C9_FlagsAndFrame ==
    DateCalled =>
        /\ <<"grid", "major", "both">> \in Calls
        /\ ax.xgrid_major /\ ax.ygrid_major
        /\ call.ticklabels <=> CallsTo("xaxis.set_major_formatter") # {}
        /\ ~call.ticklabels => ax.xmajor_fmt = pre.xmajor_fmt
        /\ call.ticklabels <=> ax.xtick_rotation = -20
        /\ call.ticklabels <=> ax.xtick_ha = "left"
        /\ call.yminor <=> <<"grid", "minor", "y">> \in Calls
        /\ Truthy(call.xlabel) <=> CallsTo("set_xlabel") # {}
        /\ ax.xlabel = IF Truthy(call.xlabel) THEN call.xlabel[1] ELSE pre.xlabel

DenseCalled == call.op = "set_dense_minor_yticks"

\* the y-limits the last helper saw
Ymin == pre.ylim[1]

Ymax == pre.ylim[2]

\* ymax/ymin <= 100, for the quotient of the two doubles as the division yields it
WithinTwoDecades == FCmp(FDiv(Float(Ymax), Float(Ymin)), Int2Rat(100)) <= 0

\* the decimal limits, as written, have a ratio below 100 / above 100
DecimalRatioBelow100 == Ymax.n * Ymin.d < 100 * Ymin.n * Ymax.d

DecimalRatioAbove100 == Ymax.n * Ymin.d > 100 * Ymin.n * Ymax.d

\* the double ymin/4: two off the exponent
PaddedLow == LET y == Canon(Float(Ymin)) IN [m |-> y.m, e |-> y.e - 2]

\* the double ymax*4: two onto the exponent
PaddedHigh == LET y == Canon(Float(Ymax)) IN [m |-> y.m, e |-> y.e + 2]

\* a < b for the real numbers a.m * 2^a.e and b.m * 2^b.e, on a common exponent
RealLt(a, b) ==
    LET k == IF a.e < b.e THEN a.e ELSE b.e
    IN  BCmp(BShl(a.m, a.e - k), BShl(b.m, b.e - k)) < 0

StrictlyBetween(lo, t, hi) == RealLt(lo, t) /\ RealLt(t, hi)

\* the decades in reach of the ranges, padding included
CandidateDecades == (0 - (MaxYDecimals + 4))..5

\* the values m * 10**k with m in {1.5, 2, ..., 9}, as doubles, over every decade
\* in reach
AllCandidates ==
    {Canon(FMul(Float(Rat(m2, 2)), Float(Pow10(k)))) :
        m2 \in {3} \cup {2 * i : i \in 2..9}, k \in CandidateDecades}

FixedTicks == {ax.yminor_ticks[2][i] : i \in 1..Len(ax.yminor_ticks[2])}

\* the double nearest to r, for naming a tick
Double(r) == Canon(Float(r))

\* the double m * 10**k: 0.30000000000000004 for m = 3 and k = -1
Product(m, k) == Canon(FMul(Float(m), Float(Pow10(k))))

\* C5: for a positive y-range with ymax/ymin <= 100 (100 included) the minor
\* ticks set are values m*10^k, m in {1.5,2,...,9}, strictly between ymin/4 and
\* ymax*4, and the y-limits are as before the call; for [1, 50] the ticks
\* include 1.5 and 15 and none lies outside [0.25, 200].  The quotient, the
\* products and the bounds are the doubles the program computes; decimal limits
\* of a ratio below 100 always qualify.
C5_DenseTicksSound ==
    /\ (DenseCalled /\ DecimalRatioBelow100) => WithinTwoDecades
    /\ (DenseCalled /\ WithinTwoDecades) =>
        /\ ax.yminor_ticks[1] = "fixed"
        /\ \E lo \in {PaddedLow} : \E hi \in {PaddedHigh} :
             \A t \in FixedTicks : t \in AllCandidates /\ StrictlyBetween(lo, t, hi)
        /\ ax.ylim = pre.ylim
        /\ pre.ylim = <<Int2Rat(1), Int2Rat(50)>> =>
              /\ Double(Rat(3, 2)) \in FixedTicks
              /\ Double(Int2Rat(15)) \in FixedTicks
              /\ \A t \in FixedTicks : FCmp(t, Rat(1, 4)) >= 0 /\ FCmp(t, Int2Rat(200)) <= 0

\* a call on a range of ratio exactly 100 whose ticks reach beyond the range
C5_Witness ==
    /\ DenseCalled
    /\ pre.ylim = <<Int2Rat(1), Int2Rat(100)>>
    /\ ax.yminor_ticks[1] = "fixed"
    /\ Product(Int2Rat(3), -1) \in FixedTicks
    /\ Double(Int2Rat(300)) \in FixedTicks
    /\ ax.ylim = pre.ylim

\* C10: for a positive y-range with ymax/ymin <= 100 every value m*10^k, m in
\* {1.5,2,...,9}, k any integer, strictly between ymin/4 and ymax*4 is among the
\* minor ticks: iterating the decades emin <= k < emax loses none, and the tick
\* set is exactly those values (values, quotient and bounds as doubles)
C10_DenseTicksComplete ==
    (DenseCalled /\ WithinTwoDecades) =>
        /\ ax.yminor_ticks[1] = "fixed"
        /\ \E lo \in {PaddedLow} : \E hi \in {PaddedHigh} :
             FixedTicks = {t \in AllCandidates : StrictlyBetween(lo, t, hi)}

\* a call where ymax*4 = 200 lies inside the top decade: 150 must be kept
C10_Witness ==
    /\ DenseCalled
    /\ pre.ylim = <<Int2Rat(1), Int2Rat(50)>>
    /\ ax.yminor_ticks[1] = "fixed"
    /\ Double(Int2Rat(150)) \in FixedTicks
    /\ Product(Int2Rat(3), -1) \in FixedTicks
    /\ Double(Rat(3, 10)) \notin FixedTicks

LabelsCalled == call.op = "set_yaxis_log_minor_labels"

\* C6: set_yaxis_log_minor_labels on a range with ymax/ymin > 100 (the quotient
\* of the doubles; decimal limits of a ratio above 100 always qualify) leaves the
\* minor tick locations and the y-range as they were, and installs the label
\* formatter as the major and as the minor y-formatter
C6_WideRange ==
    /\ (LabelsCalled /\ DecimalRatioAbove100) => ~WithinTwoDecades
    /\ (LabelsCalled /\ ~WithinTwoDecades) =>
        /\ CallsTo("yaxis.set_ticks") = {}
        /\ ax.yminor_ticks = pre.yminor_ticks
        /\ ax.ylim = pre.ylim
        /\ ax.ymajor_fmt = MyLogFormatter
        /\ ax.yminor_fmt = MyLogFormatter
        /\ CallsTo("yaxis.set_major_formatter") # {}
        /\ CallsTo("yaxis.set_minor_formatter") # {}

\* a call on the range [1, 101], just over two decades
C6_Witness ==
    /\ LabelsCalled
    /\ pre.ylim = <<Int2Rat(1), Int2Rat(101)>>
    /\ ax.ymajor_fmt = MyLogFormatter
    /\ ax.yminor_ticks = <<"auto">>

Formatted == call.op = "format_tick"

\* x scaled into [1, 10) by a power of ten
Scaled(x, k) == RMul(x, Pow10(0 - k))

\* x, scaled into [1, 10), lies nearer to c/10 than to any other tenth
RoundsToTenths(x, c) ==
    \E k \in (0 - LowDecades)..MaxDecade :
        /\ RLe(Pow10(k), x)
        /\ RLt(x, Pow10(k + 1))
        /\ RLt(Rat(2 * c - 1, 20), Scaled(x, k))
        /\ RLt(Scaled(x, k), Rat(2 * c + 1, 20))

\* x, scaled into [1, 10), lies halfway between c/10 and a neighbouring tenth
HalfwayToTenths(x, c) ==
    \E k \in (0 - LowDecades)..MaxDecade :
        /\ RLe(Pow10(k), x)
        /\ RLt(x, Pow10(k + 1))
        /\ Scaled(x, k) \in {Rat(2 * c - 1, 20), Rat(2 * c + 1, 20)}

\* C7: the formatter returns '' for every value whose mantissa, rounded to one
\* decimal, is 6, 8 or 9, in every decade (600 and 80000 among them), and a
\* non-empty label for every other value (mantissa 1.5, 7, or one that rounds up
\* to 10.0).  A mantissa halfway between two tenths rounds as the doubles fall:
\* 60.5 and 0.0595 are labelled, 6.05 is not
C7_Suppression ==
    Formatted =>
        /\ (\E c \in {60, 80, 90} : RoundsToTenths(call.x, c)) => label = ""
        /\ label = "" =>
             \E c \in {60, 80, 90} :
                 RoundsToTenths(call.x, c) \/ HalfwayToTenths(call.x, c)
        /\ call.x \in {Int2Rat(600), Int2Rat(80000), Rat(9, 1000)} => label = ""
        /\ call.x \in {Rat(3, 2), Int2Rat(1500), Int2Rat(7), Int2Rat(9960),
                       Rat(7, 10000)} => label # ""
        /\ call.x \in {Rat(121, 2), Rat(595, 10000)} => label # ""
        /\ call.x = Rat(121, 20) => label = ""

\* the formatter called on 80000, whose label is suppressed
C7_Witness ==
    /\ Formatted
    /\ call.x = Int2Rat(80000)
    /\ label = ""

\* the table entries whose multiplier does not exceed x
Fitting(x) == {i \in 1..Len(PrefixTable) : RLe(PrefixTable[i].mul, x)}

\* label is x over entry i's multiplier, to three significant digits, then its prefix
RenderedWith(x, i) ==
    label = Format3g(x, PrefixTable[i].mul) \o PrefixTable[i].prefix

LargestFitting(x, i) ==
    i \in Fitting(x) /\ \A j \in Fitting(x) : RLe(PrefixTable[j].mul, PrefixTable[i].mul)

LabelExamples ==
    /\ call.x = Int2Rat(1500) => label = "1.5k"
    /\ call.x = Int2Rat(2000000) => label = "2M"
    /\ call.x = Int2Rat(1234) => label = "1.23k"
    /\ call.x = Int2Rat(150) => label = "150"
    /\ call.x = Rat(1, 4) => label = "250m"
    /\ call.x = Rat(5, 1000) => label = "5m"
    /\ call.x = Int2Rat(1115) => label = "1.11k"
    /\ call.x = Int2Rat(1125) => label = "1.12k"
    /\ call.x = Rat(121, 2) => label = "60.5"
    /\ call.x = Rat(595, 10000) => label = "59.5m"

\* C8 as claimed: every label that is not suppressed is rendered with the largest
\* multiplier of the table that does not exceed the value
C8_LargestPrefix ==
    (Formatted /\ label # "") =>
        /\ \E i \in 1..Len(PrefixTable) : LargestFitting(call.x, i) /\ RenderedWith(call.x, i)
        /\ LabelExamples

\* C8 as amended: so for every value of at least 1e-3; a smaller value, which no
\* multiplier of the table fits, is rendered with the last entry, 1e-3 and 'm'
C8_LargestPrefixOrMilli ==
    (Formatted /\ label # "") =>
        /\ IF Fitting(call.x) # {}
           THEN \E i \in 1..Len(PrefixTable) :
                    LargestFitting(call.x, i) /\ RenderedWith(call.x, i)
           ELSE RenderedWith(call.x, Len(PrefixTable))
        /\ LabelExamples

\* the formatter called on 0.0005, below every multiplier of the table
C8_Witness ==
    /\ Formatted
    /\ call.x = Rat(5, 10000)
    /\ label = "0.5m"

====
